---------------------------- MODULE Spec2Model ----------------------------
(***************************************************************************)
(* Schedule aggregation and windowing engine of the HEMS persona reporter  *)
(* (src/app/main.py): _guess_slot_hours, compute_from_schedule,            *)
(* build_24h_csv and load_windows_15m, run in the order persona_report     *)
(* calls them on one validated OptimizationSchedule.                       *)
(*                                                                         *)
(* Numbers.  Python floats are modelled by exact rationals in fixed units: *)
(*   - an instant or a duration is a record [min, tk]: whole minutes plus  *)
(*     ticks of 0.2 microsecond, 0 <= tk < TicksPerMin.  A datetime or a   *)
(*     timedelta has microsecond resolution, so its tk is a multiple of    *)
(*     TicksPerUs; the float returned by _guess_slot_hours need not be.    *)
(*     Instants count from midnight of the first day of the schedule.      *)
(*   - a power is a whole number of quanta of 0.0002 kW (0.2 W).           *)
(*   - an energy is a record [min, tk] of quantum-minutes and              *)
(*     quantum-ticks.                                                      *)
(*   - a value rounded to 3 decimals is a whole number of thousandths.     *)
(* Floating-point noise of the sums is not modelled; where round() meets   *)
(* an exact decimal tie, whose outcome depends on the binary expansion of  *)
(* the float, both neighbours are possible outcomes.                       *)
(***************************************************************************)
EXTENDS Integers, Sequences, FiniteSets, TLC

\* ------------------------------------------------------------- units
TicksPerUs == 5
TicksPerSec == 5000000
TicksPerMin == 300000000
HoursPerDay == 24
\* one thousandth of a kWh is 300 quantum-minutes; one thousandth of a kW is 5 quanta
QuantumMinPerMilliKwh == 300
QuantaPerMilliKw == 5
\* one quantum is 200000 billionths of a kW
NanoKwPerQuantum == 200000

\* ------------------------------------------------------------- bounds
MaxSlots == 3

\* ------------------------------------------------------------- arithmetic on [min, tk]
Dur(m, t) == [min |-> m, tk |-> t]

Zero == Dur(0, 0)

Norm(m, t) == Dur(m + t \div TicksPerMin, t % TicksPerMin)

DurLt(a, b) == a.min < b.min \/ (a.min = b.min /\ a.tk < b.tk)

DurLe(a, b) == a = b \/ DurLt(a, b)

DurAdd(a, b) == Norm(a.min + b.min, a.tk + b.tk)

\* a - b, for b <= a
DurSub(a, b) ==
    IF a.tk >= b.tk THEN Dur(a.min - b.min, a.tk - b.tk)
    ELSE Dur(a.min - b.min - 1, a.tk + TicksPerMin - b.tk)

DurMax(a, b) == IF DurLt(a, b) THEN b ELSE a

\* k * t ticks as a normalised [min, tk], computed in chunks of TickChunk
\* ticks so that no product leaves 32 bits (k < 70000, t < TicksPerMin)
MulTk(k, t) ==
    LET TickChunk == 10000
        ChunksPerMin == TicksPerMin \div TickChunk
        hi == t \div TickChunk
        lo == t % TickChunk
        a == (k * hi) \div ChunksPerMin
        b == (k * hi) % ChunksPerMin
    IN  Norm(a, b * TickChunk + k * lo)

\* k * d
DurScale(k, d) == DurAdd(Dur(k * d.min, 0), MulTk(k, d.tk))


\* ------------------------------------------------------------- domain model
\* DataItem: name, value (kW, here in quanta)
Item(n, v) == [name |-> n, value |-> v]

\* ScheduleSlot: timestamp, data
Slot(t, d) == [timestamp |-> t, data |-> d]

\* OptimizationSchedule._ensure_sorted: sorted(v, key=timestamp), a stable sort
InsertSlot(s, x) ==
    LET k == Cardinality({j \in DOMAIN s : DurLe(s[j].timestamp, x.timestamp)})
    IN  SubSeq(s, 1, k) \o <<x>> \o SubSeq(s, k + 1, Len(s))

RECURSIVE _ensure_sorted(_)
_ensure_sorted(v) ==
    IF v = <<>> THEN <<>>
    ELSE InsertSlot(_ensure_sorted(SubSeq(v, 1, Len(v) - 1)), v[Len(v)])

\* ------------------------------------------------------------- program constants
\* the clamp 1e-9 h of _guess_slot_hours: 3.6 microseconds, 18 ticks
MinSlotTicks == 18
\* the default 0.25 h of _guess_slot_hours, in minutes
DefaultSlotMin == 15
\* the fixed 0.25 h of build_24h_csv, in minutes
CsvSlotMin == 15
\* the tolerance 1e-9 kW of the peak comparison, in billionths of a kW
PeakTolNano == 1
SecPerMin == 60
SecPerHour == 3600

\* ------------------------------------------------------------- helpers
\* a faulty _guess_slot_hours: reads the gap between the last two slots
GuessFromLastGap(schedule) ==
    LET n == Len(schedule)
    IN  IF n >= 2 /\ DurLt(schedule[n - 1].timestamp, schedule[n].timestamp)
        THEN DurMax(DurSub(schedule[n].timestamp, schedule[n - 1].timestamp),
                    Dur(0, MinSlotTicks))
        ELSE Dur(DefaultSlotMin, 0)

\* _guess_slot_hours: the slot duration in hours (a float), as a duration
_guess_slot_hours(schedule) ==
    IF Len(schedule) >= 2
       /\ DurLt(schedule[1].timestamp, schedule[2].timestamp)
    THEN DurMax(DurSub(schedule[2].timestamp, schedule[1].timestamp),
                Dur(0, MinSlotTicks))
    ELSE Dur(DefaultSlotMin, 0)

\* timedelta(hours=h): the duration rounded to whole microseconds
\* (TicksPerUs is odd, so there is no tie)
TimedeltaHours(h) ==
    LET r == h.tk % TicksPerUs
    IN  IF 2 * r < TicksPerUs THEN Dur(h.min, h.tk - r)
        ELSE Norm(h.min, h.tk - r + TicksPerUs)

\* slot.timestamp.strftime("%Y-%m-%d %H:%M:%S"): the instant cut to whole
\* seconds; the key is the count of seconds, which the text encodes one to one
Strftime(t) == t.min * SecPerMin + t.tk \div TicksPerSec

\* int(ts[11:13]): the hour of day of a key
HourOf(key) == (key \div SecPerHour) % HoursPerDay

\* a dict as a TLA+ function; d.get(k, default) and d[k] = v
EmptyDict == [x \in {} |-> 0]

DictGet(d, k, default) == IF k \in DOMAIN d THEN d[k] ELSE default

DictPut(d, k, v) == [x \in DOMAIN d \cup {k} |-> IF x = k THEN v ELSE d[x]]

\* power_by_ts keeps its insertion order: a sequence of [ts, p]
OrderedPut(d, k, v) ==
    IF \E j \in DOMAIN d : d[j].ts = k
    THEN [j \in DOMAIN d |-> IF d[j].ts = k THEN [ts |-> k, p |-> v] ELSE d[j]]
    ELSE Append(d, [ts |-> k, p |-> v])

\* the inner loop of compute_from_schedule over slot.data: p_sum
RECURSIVE SlotPower(_)
SlotPower(data) ==
    IF data = <<>> THEN 0
    ELSE SlotPower(SubSeq(data, 1, Len(data) - 1)) + data[Len(data)].value

\* a faulty SlotEnergy: a repeated load name overwrites the slot's earlier
\* contribution instead of adding to it
RECURSIVE SlotEnergyLastWins(_, _, _)
SlotEnergyLastWins(data, energy, h) ==
    IF data = <<>> THEN energy
    ELSE LET it == data[Len(data)]
             rest == SubSeq(data, 1, Len(data) - 1)
             before == SlotEnergyLastWins(rest, energy, h)
         IN  DictPut(before, it.name,
                     DurAdd(DictGet(energy, it.name, Zero), DurScale(it.value, h)))

\* a faulty SlotEnergy: the energy is taken over the default 0.25 h, not slot_h
RECURSIVE SlotEnergyDefaultHours(_, _, _)
SlotEnergyDefaultHours(data, energy, h) ==
    IF data = <<>> THEN energy
    ELSE LET it == data[Len(data)]
             before == SlotEnergyDefaultHours(SubSeq(data, 1, Len(data) - 1), energy, h)
         IN  DictPut(before, it.name,
                     DurAdd(DictGet(before, it.name, Zero),
                            DurScale(it.value, Dur(DefaultSlotMin, 0))))

\* the inner loop of compute_from_schedule over slot.data: energy_by_load
RECURSIVE SlotEnergy(_, _, _)
SlotEnergy(data, energy, h) ==
    IF data = <<>> THEN energy
    ELSE LET it == data[Len(data)]
             before == SlotEnergy(SubSeq(data, 1, Len(data) - 1), energy, h)
         IN  DictPut(before, it.name,
                     DurAdd(DictGet(before, it.name, Zero), DurScale(it.value, h)))

\* sum(energy_by_load.values())
RECURSIVE SumEnergy(_)
SumEnergy(energy) ==
    IF DOMAIN energy = {} THEN Zero
    ELSE LET k == CHOOSE x \in DOMAIN energy : TRUE
         IN  DurAdd(energy[k], SumEnergy([x \in DOMAIN energy \ {k} |-> energy[x]]))

\* round(x, 3) of an energy, in thousandths of a kWh; both neighbours at an
\* exact tie
Round3Energy(e) ==
    LET whole == e.min \div QuantumMinPerMilliKwh
        r == e.min % QuantumMinPerMilliKwh
    IN  IF 2 * r < QuantumMinPerMilliKwh THEN {whole}
        ELSE IF 2 * r = QuantumMinPerMilliKwh /\ e.tk = 0 THEN {whole, whole + 1}
        ELSE {whole + 1}

\* round(x, 3) of a power, in thousandths of a kW (QuantaPerMilliKw is odd,
\* so there is no tie)
Round3Power(p) ==
    p \div QuantaPerMilliKw + (IF 2 * (p % QuantaPerMilliKw) > QuantaPerMilliKw THEN 1 ELSE 0)

\* max(power_by_ts.values()) if power_by_ts else 0.0
PeakValue(d) ==
    IF d = <<>> THEN 0
    ELSE CHOOSE m \in {d[j].p : j \in DOMAIN d} : \A j \in DOMAIN d : d[j].p <= m

Abs(x) == IF x < 0 THEN -x ELSE x

\* abs(p - peak_kw_val) < 1e-9
AtPeak(p, peak) ==
    /\ Abs(p - peak) < PeakTolNano
    /\ Abs(p - peak) * NanoKwPerQuantum < PeakTolNano

\* a faulty PeakKeys: a tie is broken in favour of the first key at the peak
PeakKeysFirstOnly(d, peak) ==
    IF \E j \in DOMAIN d : AtPeak(d[j].p, peak)
    THEN <<d[CHOOSE j \in DOMAIN d :
                 /\ AtPeak(d[j].p, peak)
                 /\ \A k \in 1 .. j - 1 : ~AtPeak(d[k].p, peak)].ts>>
    ELSE <<>>

\* [ts for ts, p in power_by_ts.items() if abs(p - peak_kw_val) < 1e-9]
RECURSIVE PeakKeys(_, _)
PeakKeys(d, peak) ==
    IF d = <<>> THEN <<>>
    ELSE LET rest == PeakKeys(SubSeq(d, 1, Len(d) - 1), peak)
             last == d[Len(d)]
         IN  IF AtPeak(last.p, peak) THEN Append(rest, last.ts) ELSE rest

\* a faulty build_24h_csv: a bucket is overwritten instead of added to
RECURSIVE Csv24hOverwrite(_)
Csv24hOverwrite(d) ==
    IF d = <<>> THEN [h \in 0 .. HoursPerDay - 1 |-> 0]
    ELSE LET rest == Csv24hOverwrite(SubSeq(d, 1, Len(d) - 1))
             last == d[Len(d)]
         IN  [rest EXCEPT ![HourOf(last.ts)] = last.p * CsvSlotMin]

\* build_24h_csv: per_hour_Wh after the loop, each bucket in quantum-minutes
\* (p_kw * 0.25 h); the rendering of the buckets as text is not modelled
RECURSIVE build_24h_csv(_)
build_24h_csv(d) ==
    IF d = <<>> THEN [h \in 0 .. HoursPerDay - 1 |-> 0]
    ELSE LET rest == build_24h_csv(SubSeq(d, 1, Len(d) - 1))
             last == d[Len(d)]
         IN  [rest EXCEPT ![HourOf(last.ts)] = @ + last.p * CsvSlotMin]


\* ------------------------------------------------------------- inputs
Loads == {"A", "B"}

\* 23:30:00, 23:30:00.000001, 23:45, 00:00 and 00:15 of the next day
T0 == Dur(1410, 0)
T0u == Dur(1410, TicksPerUs)
T1 == Dur(1425, 0)
T2 == Dur(1440, 0)
T3 == Dur(1455, 0)

\* the slots of the window runs: which loads are present (10000 quanta are 2 kW)
WinData == { <<>>, <<Item("A", 10000)>>, <<Item("B", 3)>>,
             <<Item("A", 1), Item("B", 2)>> }

WinSlots == {Slot(t, d) : t \in {T0, T0u, T1, T2, T3}, d \in WinData}

\* the slots of the aggregation runs: powers, ties and repeated names
AggData == { <<>>, <<Item("A", 10000)>>, <<Item("A", 3)>>, <<Item("B", 2)>>,
             <<Item("A", 1), Item("B", 2)>>, <<Item("A", 1), Item("A", 3)>> }

AggSlots == {Slot(t, d) : t \in {T0, T0u, T1, T2}, d \in AggData}

\* a request body: up to MaxSlots slots in any order
RawSchedules(slots) == UNION {[1 .. n -> slots] : n \in 0 .. MaxSlots}

\* ------------------------------------------------------------- state
VARIABLES
    payload,         \* the validated OptimizationSchedule.schedule
    pc,              \* where persona_report is
    i,               \* the index of the slot a loop is at (from 1)
    slot_h,          \* slot_h of the function running
    power_by_ts,     \* compute_from_schedule
    energy_by_load,
    total_kwh,
    peak_kw,
    peak_ts,
    per_hour_Wh,     \* build_24h_csv
    windows,         \* load_windows_15m
    active_start,
    windows_lines    \* persona_report

vars == <<payload, pc, i, slot_h, power_by_ts, energy_by_load, total_kwh,
          peak_kw, peak_ts, per_hour_Wh, windows, active_start, windows_lines>>

computed == <<power_by_ts, energy_by_load, total_kwh, peak_kw, peak_ts>>

InitRest ==
    /\ pc = "compute"
    /\ i = 0
    /\ slot_h = Zero
    /\ power_by_ts = <<>>
    /\ energy_by_load = EmptyDict
    /\ total_kwh = 0
    /\ peak_kw = 0
    /\ peak_ts = <<>>
    /\ per_hour_Wh = EmptyDict
    /\ windows = EmptyDict
    /\ active_start = EmptyDict
    /\ windows_lines = EmptyDict

Init ==
    /\ payload \in {_ensure_sorted(v) : v \in RawSchedules(WinSlots)}
    /\ InitRest

InitAgg ==
    /\ payload \in {_ensure_sorted(v) : v \in RawSchedules(AggSlots)}
    /\ InitRest

\* ------------------------------------------------------------- compute_from_schedule
compute_begin ==
    /\ pc = "compute"
    /\ slot_h' = _guess_slot_hours(payload)
    /\ power_by_ts' = <<>>
    /\ energy_by_load' = EmptyDict
    /\ i' = 1
    /\ pc' = "compute_loop"
    /\ UNCHANGED <<payload, total_kwh, peak_kw, peak_ts, per_hour_Wh, windows,
                   active_start, windows_lines>>

compute_slot ==
    /\ pc = "compute_loop"
    /\ i <= Len(payload)
    /\ LET slot == payload[i]
           ts_str == Strftime(slot.timestamp)
       IN  /\ energy_by_load' = SlotEnergy(slot.data, energy_by_load, slot_h)
           /\ power_by_ts' = OrderedPut(power_by_ts, ts_str, SlotPower(slot.data))
    /\ i' = i + 1
    /\ UNCHANGED <<payload, pc, slot_h, total_kwh, peak_kw, peak_ts, per_hour_Wh,
                   windows, active_start, windows_lines>>

compute_return ==
    /\ pc = "compute_loop"
    /\ i > Len(payload)
    /\ total_kwh' \in Round3Energy(SumEnergy(energy_by_load))
    /\ LET peak_kw_val == PeakValue(power_by_ts)
       IN  /\ peak_kw' = Round3Power(peak_kw_val)
           /\ peak_ts' = PeakKeys(power_by_ts, peak_kw_val)
    /\ pc' = "csv"
    /\ UNCHANGED <<payload, i, slot_h, power_by_ts, energy_by_load, per_hour_Wh,
                   windows, active_start, windows_lines>>

\* ------------------------------------------------------------- build_24h_csv
csv_24h ==
    /\ pc = "csv"
    /\ per_hour_Wh' = build_24h_csv(power_by_ts)
    /\ pc' = "windows"
    /\ UNCHANGED <<payload, i, slot_h, computed, windows, active_start, windows_lines>>


\* ------------------------------------------------------------- load_windows_15m
\* {it.name for it in slot.data}
Present(data) == {data[j].name : j \in DOMAIN data}

\* windows.setdefault(name, []).append(w) for every name of names
AppendAll(w, names, window) ==
    [n \in DOMAIN w \cup names |->
        IF n \in names THEN Append(DictGet(w, n, <<>>), window[n]) ELSE w[n]]

\* a faulty CloseAbsent: the window is closed at the instant it was opened
CloseAbsentAtStart(w, active, present, ts) ==
    LET closing == {n \in DOMAIN active : n \notin present}
        window == [n \in closing |-> <<active[n], active[n]>>]
    IN  [windows |-> AppendAll(w, closing, window),
         active_start |-> [n \in DOMAIN active \ closing |-> active[n]]]

\* close windows for loads that stop being present
CloseAbsent(w, active, present, ts) ==
    LET closing == {n \in DOMAIN active : n \notin present}
        window == [n \in closing |-> <<active[n], ts>>]
    IN  [windows |-> AppendAll(w, closing, window),
         active_start |-> [n \in DOMAIN active \ closing |-> active[n]]]

\* a faulty OpenPresent: every slot restarts the window of a present load
OpenPresentAlways(active, present, ts) ==
    [n \in DOMAIN active \cup present |-> IF n \in present THEN ts ELSE active[n]]

\* open windows for newly present loads
OpenPresent(active, present, ts) ==
    [n \in DOMAIN active \cup present |-> IF n \in DOMAIN active THEN active[n] ELSE ts]

\* a faulty CloseLast: the final slot's own duration is not added
CloseLastAtTimestamp(w, active, ts, h) ==
    LET window == [n \in DOMAIN active |-> <<active[n], ts>>]
    IN  [windows |-> AppendAll(w, DOMAIN active, window), active_start |-> EmptyDict]

\* a faulty CloseLast: the default 0.25 h is added, not slot_h
CloseLastDefaultHours(w, active, ts, h) ==
    LET last_end == DurAdd(ts, Dur(DefaultSlotMin, 0))
        window == [n \in DOMAIN active |-> <<active[n], last_end>>]
    IN  [windows |-> AppendAll(w, DOMAIN active, window), active_start |-> EmptyDict]

\* a faulty CloseLast: the open windows are dropped at the end
CloseLastDropped(w, active, ts, h) ==
    [windows |-> w, active_start |-> EmptyDict]

\* last slot: close any active windows at +slot_h
CloseLast(w, active, ts, h) ==
    LET last_end == DurAdd(ts, TimedeltaHours(h))
        window == [n \in DOMAIN active |-> <<active[n], last_end>>]
    IN  [windows |-> AppendAll(w, DOMAIN active, window), active_start |-> EmptyDict]

windows_begin ==
    /\ pc = "windows"
    /\ windows' = EmptyDict
    /\ active_start' = EmptyDict
    /\ slot_h' = _guess_slot_hours(payload)
    /\ i' = 1
    /\ pc' = "windows_loop"
    /\ UNCHANGED <<payload, computed, per_hour_Wh, windows_lines>>

windows_slot ==
    /\ pc = "windows_loop"
    /\ i <= Len(payload)
    /\ LET slot == payload[i]
           ts == slot.timestamp
           present == Present(slot.data)
           closed == CloseAbsent(windows, active_start, present, ts)
           opened == OpenPresent(closed.active_start, present, ts)
           final == IF i = Len(payload)
                    THEN CloseLast(closed.windows, opened, ts, slot_h)
                    ELSE [windows |-> closed.windows, active_start |-> opened]
       IN  /\ windows' = final.windows
           /\ active_start' = final.active_start
    /\ i' = i + 1
    /\ UNCHANGED <<payload, pc, slot_h, computed, per_hour_Wh, windows_lines>>

windows_return ==
    /\ pc = "windows_loop"
    /\ i > Len(payload)
    /\ pc' = "facts"
    /\ UNCHANGED <<payload, i, slot_h, computed, per_hour_Wh, windows, active_start,
                   windows_lines>>

\* ------------------------------------------------------------- persona_report
\* the fact lines: one per key of win, with energy_by_load.get(name, 0.0)
fact_lines ==
    /\ pc = "facts"
    /\ windows_lines' =
           [name \in DOMAIN windows |->
               [janela_otima |-> windows[name],
                energia_total_kWh |-> DictGet(energy_by_load, name, Zero)]]
    /\ pc' = "done"
    /\ UNCHANGED <<payload, i, slot_h, computed, per_hour_Wh, windows, active_start>>

Next ==
    \/ compute_begin
    \/ compute_slot
    \/ compute_return
    \/ csv_24h
    \/ windows_begin
    \/ windows_slot
    \/ windows_return
    \/ fact_lines

Spec == Init /\ [][Next]_vars

SpecAgg == InitAgg /\ [][Next]_vars


\* ------------------------------------------------------------- properties: vocabulary
N == Len(payload)

TsOf(j) == payload[j].timestamp

ComputeDone == pc \notin {"compute", "compute_loop"}

WindowsDone == pc \in {"facts", "done"}

\* load L has an entry in slot j
HasEntry(L, j) == \E k \in DOMAIN payload[j].data : payload[j].data[k].name = L

NamesInSchedule == {L \in Loads : \E j \in 1 .. N : HasEntry(L, j)}

WindowsOf(L) == DictGet(windows, L, <<>>)

StrictlyIncreasing == \A j \in 1 .. N - 1 : DurLt(TsOf(j), TsOf(j + 1))

\* the instant t lies in the half-open window w
InWindow(t, w) == DurLe(w[1], t) /\ DurLt(t, w[2])

\* the slot duration the schedule implies: the first gap when positive, never
\* less than 1e-9 h, else 0.25 h
FirstGapPositive == N >= 2 /\ DurLt(TsOf(1), TsOf(2))

FirstGap == DurSub(TsOf(2), TsOf(1))

\* span is k * slot for a whole k >= 1 (slot > 0; for a slot under a minute
\* the remainder is taken limb by limb, which needs slot.tk < 46341)
IsMultiple(span, slot) ==
    IF slot.min = 0
    THEN /\ DurLt(Zero, span)
         /\ ((span.min % slot.tk) * (TicksPerMin % slot.tk) + span.tk) % slot.tk = 0
    ELSE \E k \in 1 .. (span.min \div slot.min + 1) : DurScale(k, slot) = span

\* ------------------------------------------------------------- C1
CoveredBy(L, j) == {k \in DOMAIN WindowsOf(L) : InWindow(TsOf(j), WindowsOf(L)[k])}

Coverage ==
    \A L \in Loads : \A j \in 1 .. N :
        Cardinality(CoveredBy(L, j)) = (IF HasEntry(L, j) THEN 1 ELSE 0)

\* C1 as stated: for every schedule with non-decreasing timestamps, a slot's
\* timestamp lies in a window of L (and in one only) exactly when L has an
\* entry in the slot.
C1_AsStated == WindowsDone => Coverage

\* C1: for every schedule with strictly increasing timestamps, a slot's
\* timestamp lies in some half-open window [start, end) of L if and only if
\* L has an entry in the slot, and then in exactly one window.
C1_Coverage == (WindowsDone /\ StrictlyIncreasing) => Coverage

C1_Witness ==
    /\ WindowsDone /\ StrictlyIncreasing /\ N = 3
    /\ HasEntry("A", 1) /\ ~HasEntry("A", 2) /\ HasEntry("A", 3)
    /\ Len(WindowsOf("A")) = 2

\* ------------------------------------------------------------- C2
\* the maximal runs a .. b of consecutive slots in which L is present
Runs(L) ==
    {r \in (1 .. N) \X (1 .. N) :
        /\ r[1] <= r[2]
        /\ \A j \in r[1] .. r[2] : HasEntry(L, j)
        /\ (r[1] = 1 \/ ~HasEntry(L, r[1] - 1))
        /\ (r[2] = N \/ ~HasEntry(L, r[2] + 1))}

\* the window of a run: from its first slot to the first slot after it, or to
\* the last timestamp plus the slot duration (as an instant, so to the
\* microsecond) when the run reaches the final slot
RunWindow(r) ==
    <<TsOf(r[1]),
      IF r[2] < N THEN TsOf(r[2] + 1) ELSE DurAdd(TsOf(N), TimedeltaHours(slot_h))>>

\* the k-th run of L in schedule order
RunAt(L, k) ==
    CHOOSE r \in Runs(L) : Cardinality({q \in Runs(L) : q[1] < r[1]}) = k - 1

Monotone ==
    \A L \in Loads : \A k \in DOMAIN WindowsOf(L) :
        LET w == WindowsOf(L)
        IN  /\ DurLt(w[k][1], w[k][2])
            /\ k < Len(w) => /\ DurLe(w[k][2], w[k + 1][1])
                             /\ DurLt(w[k][1], w[k + 1][1])

\* C3 as stated: for any schedule with non-decreasing timestamps the windows
\* of a load have start < end, end <= next start and increasing starts.
C3_AsStated == WindowsDone => Monotone

\* C3: for any schedule with strictly increasing timestamps, the windows of a
\* load, in list order, have strictly increasing starts and do not overlap
\* (start < end, and end <= the next window's start).
C3_Monotone == (WindowsDone /\ StrictlyIncreasing) => Monotone

C3_Witness ==
    /\ WindowsDone /\ StrictlyIncreasing
    /\ \E L \in Loads : Len(WindowsOf(L)) = 2


\* ------------------------------------------------------------- C8
\* C8 as stated: the first gap in hours when it is positive, else 0.25 h.
C8_AsStated ==
    pc /= "compute" =>
        slot_h = (IF FirstGapPositive THEN FirstGap ELSE Dur(DefaultSlotMin, 0))

\* C8: _guess_slot_hours returns the gap between the first two timestamps in
\* hours when there are at least two slots and the gap is positive, raised to
\* 1e-9 h when the gap is shorter than that; in every other case it returns
\* 0.25; the result is strictly positive and later slots never influence it.
C8_SlotHours ==
    pc /= "compute" =>
        /\ slot_h = (IF ~FirstGapPositive THEN Dur(DefaultSlotMin, 0)
                     ELSE IF DurLt(FirstGap, Dur(0, MinSlotTicks))
                          THEN Dur(0, MinSlotTicks)
                          ELSE FirstGap)
        /\ DurLt(Zero, slot_h)

C8_Witness ==
    /\ pc /= "compute" /\ N = 3
    /\ TsOf(1) = T0 /\ TsOf(2) = T0u /\ TsOf(3) = T2
    /\ slot_h = Dur(0, MinSlotTicks)

\* ------------------------------------------------------------- C9
Span(w) == DurSub(w[2], w[1])

\* every window spans a whole number (>= 1) of slot durations, and a load
\* present in the final slot only has one window of one slot duration
Granular ==
    /\ \A L \in Loads : \A k \in DOMAIN WindowsOf(L) :
           /\ DurLe(WindowsOf(L)[k][1], WindowsOf(L)[k][2])
           /\ IsMultiple(Span(WindowsOf(L)[k]), slot_h)
    /\ \A L \in Loads :
           (N >= 1 /\ HasEntry(L, N) /\ \A j \in 1 .. N - 1 : ~HasEntry(L, j))
               => /\ Len(WindowsOf(L)) = 1
                  /\ Span(WindowsOf(L)[1]) = slot_h

\* every gap between consecutive slots is a whole number (>= 1) of slot
\* durations, as in a schedule sampled at a fixed cadence
OnCadence ==
    \A j \in 1 .. N - 1 :
        /\ DurLt(TsOf(j), TsOf(j + 1))
        /\ IsMultiple(DurSub(TsOf(j + 1), TsOf(j)), slot_h)

\* C9 as stated: for any sorted schedule every window spans a whole number
\* (>= 1) of the inferred slot durations.
C9_AsStated == WindowsDone => Granular

\* C9: for any sorted schedule in which every gap between consecutive slots is
\* a positive whole multiple of the slot duration inferred by
\* _guess_slot_hours, every window's span is a whole (>= 1) multiple of that
\* slot duration, and a load appearing only in the final slot gets a single
\* window of exactly one slot duration.
C9_Granular == (WindowsDone /\ OnCadence) => Granular

C9_Witness ==
    /\ WindowsDone /\ OnCadence /\ N = 3
    /\ TsOf(1) = T0 /\ TsOf(2) = T1 /\ TsOf(3) = T3
    /\ ~HasEntry("A", 1) /\ ~HasEntry("A", 2) /\ HasEntry("A", 3)
    /\ HasEntry("B", 1) /\ HasEntry("B", 2) /\ ~HasEntry("B", 3)
    /\ WindowsOf("A") = << <<T3, Dur(1470, 0)>> >>
    /\ WindowsOf("B") = << <<T0, T3>> >>

\* ------------------------------------------------------------- C10
\* C10: when load_windows_15m has returned, no window is left open, and the
\* loads that have at least one window are the keys of energy_by_load, which
\* are the load names occurring in any slot; the fact lines of persona_report
\* are one per such load.
C10_LoadSets ==
    /\ WindowsDone =>
           /\ active_start = EmptyDict
           /\ {L \in DOMAIN windows : windows[L] /= <<>>} = DOMAIN energy_by_load
           /\ DOMAIN windows = DOMAIN energy_by_load
           /\ DOMAIN energy_by_load = NamesInSchedule
    /\ pc = "done" => DOMAIN windows_lines = DOMAIN energy_by_load

C10_Witness ==
    /\ pc = "done" /\ N = 3
    /\ ~HasEntry("A", 1) /\ ~HasEntry("A", 2) /\ HasEntry("A", 3)
    /\ HasEntry("B", 1) /\ ~HasEntry("B", 2) /\ ~HasEntry("B", 3)
    /\ DOMAIN windows_lines = {"A", "B"}


\* ------------------------------------------------------------- C4
\* m is the maximum of the per-slot totals of power_by_ts
IsMaxTotal(m) ==
    /\ \E j \in DOMAIN power_by_ts : power_by_ts[j].p = m
    /\ \A j \in DOMAIN power_by_ts : power_by_ts[j].p <= m

SeqRange(q) == {q[j] : j \in DOMAIN q}

\* the keys at the maximum; totals are whole quanta, so two totals within
\* 1e-9 kW of each other are equal
KeysAt(m) == {power_by_ts[j].ts : j \in {k \in DOMAIN power_by_ts : power_by_ts[k].p = m}}

\* C4 as stated: the peak returned equals the maximum of power_by_ts and
\* peak_ts is exactly the set of keys at the maximum.
C4_AsStated ==
    (ComputeDone /\ N >= 1) =>
        \E m \in SeqRange([j \in DOMAIN power_by_ts |-> power_by_ts[j].p]) :
            /\ IsMaxTotal(m)
            /\ peak_kw * QuantaPerMilliKw = m
            /\ SeqRange(peak_ts) = KeysAt(m)

\* C4: for any non-empty schedule, the peak returned by compute_from_schedule
\* is the maximum value of power_by_ts rounded to 3 decimals, and peak_ts is
\* exactly the set of keys whose per-slot total is at the unrounded maximum:
\* every member is at the peak, no non-member is, and keys tied at the peak
\* are all reported, each once.
C4_Peak ==
    (ComputeDone /\ N >= 1) =>
        \E m \in SeqRange([j \in DOMAIN power_by_ts |-> power_by_ts[j].p]) :
            /\ IsMaxTotal(m)
            /\ 2 * Abs(peak_kw * QuantaPerMilliKw - m) < QuantaPerMilliKw
            /\ SeqRange(peak_ts) = KeysAt(m)
            /\ Len(peak_ts) = Cardinality(KeysAt(m))

C4_Witness ==
    /\ ComputeDone /\ N = 3
    /\ Len(power_by_ts) = 3
    /\ power_by_ts[1].p = 3 /\ power_by_ts[2].p = 2 /\ power_by_ts[3].p = 3
    /\ peak_ts = <<power_by_ts[1].ts, power_by_ts[3].ts>>
    /\ peak_kw = 1

\* ------------------------------------------------------------- C5
CsvDone == pc \in {"windows", "windows_loop", "facts", "done"}

RECURSIVE BucketSum(_)
BucketSum(h) == IF h < 0 THEN 0 ELSE per_hour_Wh[h] + BucketSum(h - 1)

\* the sum of the 24 buckets as an energy
HistogramEnergy == Dur(BucketSum(HoursPerDay - 1), 0)

Conserved ==
    /\ HistogramEnergy = SumEnergy(energy_by_load)
    /\ total_kwh \in Round3Energy(HistogramEnergy)

\* every slot has a key of its own in power_by_ts
OneKeyPerSlot == Len(power_by_ts) = N

\* C5 as stated: whenever the inferred slot duration is exactly 0.25 h, the
\* 24 buckets sum to the total energy.
C5_AsStated == (CsvDone /\ slot_h = Dur(CsvSlotMin, 0)) => Conserved

\* C5: for any schedule whose inferred slot duration is exactly 0.25 h and
\* whose slots have distinct second-precision timestamp keys, the sum of the
\* 24 hourly buckets of build_24h_csv equals the total energy computed by
\* compute_from_schedule (and rounds to total_kwh).
C5_Conservation == (CsvDone /\ slot_h = Dur(CsvSlotMin, 0) /\ OneKeyPerSlot) => Conserved

C5_Witness ==
    /\ CsvDone /\ slot_h = Dur(CsvSlotMin, 0) /\ OneKeyPerSlot /\ N = 3
    /\ per_hour_Wh[23] = 10003 * CsvSlotMin
    /\ per_hour_Wh[0] = 4 * CsvSlotMin

\* ------------------------------------------------------------- C6
\* the entries of load L in a slot's data
EntriesOf(L, data) == SelectSeq(data, LAMBDA it : it.name = L)

RECURSIVE SeqSum(_)
SeqSum(q) == IF q = <<>> THEN 0 ELSE q[1].value + SeqSum(Tail(q))

LastValue(L, data) ==
    LET e == EntriesOf(L, data) IN IF e = <<>> THEN 0 ELSE e[Len(e)].value

\* the sum of f over its domain
RECURSIVE FnSum(_)
FnSum(f) ==
    IF DOMAIN f = {} THEN 0
    ELSE LET x == CHOOSE y \in DOMAIN f : TRUE
         IN  f[x] + FnSum([y \in DOMAIN f \ {x} |-> f[y]])

HasRepeatedName(data) ==
    \E a, b \in DOMAIN data : a /= b /\ data[a].name = data[b].name

\* compute_from_schedule takes a slot with a repeated load name
RepeatedSlotStep ==
    /\ pc = "compute_loop" /\ i <= N /\ i' = i + 1
    /\ HasRepeatedName(payload[i].data)

NewTotal == power_by_ts'[Len(power_by_ts')]

\* C6 as stated: a slot with several entries of one load name contributes
\* only the last entry's power to the slot's total and only last_value *
\* slot_duration to that load's energy.
C6_AsStated ==
    [][RepeatedSlotStep =>
        LET data == payload[i].data
        IN  /\ NewTotal.p = FnSum([L \in Loads |-> LastValue(L, data)])
            /\ \A L \in Loads :
                   DictGet(energy_by_load', L, Zero)
                       = DurAdd(DictGet(energy_by_load, L, Zero),
                                DurScale(LastValue(L, data), slot_h))]_vars

\* C6: when a slot contains several entries with the same load name, every
\* entry counts: the slot contributes the sum of all its entries' powers to
\* its total in power_by_ts and the sum of that load's entries * slot
\* duration to the load's energy_by_load, with no error raised.
C6_AllEntriesCount ==
    [][RepeatedSlotStep =>
        LET data == payload[i].data
        IN  /\ NewTotal.p = SeqSum(data)
            /\ \A L \in Loads :
                   DictGet(energy_by_load', L, Zero)
                       = DurAdd(DictGet(energy_by_load, L, Zero),
                                DurScale(SeqSum(EntriesOf(L, data)), slot_h))]_vars

C6_Witness ==
    /\ pc = "compute_loop" /\ i = 3 /\ N >= 2
    /\ payload[2].data = <<Item("A", 1), Item("A", 3)>>
    /\ power_by_ts[Len(power_by_ts)].p = 4

\* ------------------------------------------------------------- C7
\* the sum of L's power over all slots of the schedule
RECURSIVE PowerOver(_, _)
PowerOver(L, j) ==
    IF j = 0 THEN 0 ELSE SeqSum(EntriesOf(L, payload[j].data)) + PowerOver(L, j - 1)

\* t thousandths of a kWh is e rounded to 3 decimals
IsRounded3(t, e) ==
    /\ DurLe(Dur(2 * t * QuantumMinPerMilliKwh - QuantumMinPerMilliKwh, 0), DurScale(2, e))
    /\ DurLe(DurScale(2, e), Dur(2 * t * QuantumMinPerMilliKwh + QuantumMinPerMilliKwh, 0))

\* C7: after compute_from_schedule, energy_by_load[L] is the slot duration
\* returned by _guess_slot_hours times the sum of L's power over all slots,
\* for every load L of the schedule, and total_kwh is the sum of all
\* energy_by_load values rounded to 3 decimals.
C7_Energy ==
    ComputeDone =>
        /\ DOMAIN energy_by_load = NamesInSchedule
        /\ \A L \in DOMAIN energy_by_load :
               energy_by_load[L] = DurScale(PowerOver(L, N), slot_h)
        /\ IsRounded3(total_kwh,
                      DurScale(FnSum([L \in Loads |-> PowerOver(L, N)]), slot_h))

\* one load at 2 kW in two 15-minute slots gives 1.0 kWh
C7_Witness ==
    /\ ComputeDone /\ N = 2
    /\ TsOf(1) = T0 /\ TsOf(2) = T1
    /\ payload[1].data = <<Item("A", 10000)>> /\ payload[2].data = <<Item("A", 10000)>>
    /\ energy_by_load = [L \in {"A"} |-> Dur(300000, 0)]
    /\ total_kwh = 1000

=============================================================================
